---- MODULE Spec2Model ----
(***************************************************************************)
(* Movement / flocking subsystem of Permafrost Engine (game/movement.c).   *)
(*                                                                         *)
(* Numbers.  The C code computes with 32-bit floats.  Here a length is an  *)
(* integer number of grid units, Q grid units to one world unit, and every *)
(* vector operation yields the exact real result rounded toward zero onto  *)
(* the grid.  Comparisons of a length with a threshold are exact (they     *)
(* compare squares).  A float vector that is not a number (the quotient    *)
(* 0/0 of normalising the zero vector) is the value NaNVec: it propagates  *)
(* through every operation and every comparison with it is false, as in    *)
(* IEEE-754 arithmetic.                                                    *)
(***************************************************************************)
EXTENDS Integers, Sequences, FiniteSets, TLC

\* ------------------------------------------------------------------ bounds
\* grid units per world unit
Q == 1000
\* FormFlock calls in one behaviour
MaxForms == 3
\* Tick calls in one behaviour
MaxTicks == 2

\* ------------------------------------------------------- program constants
ENTITY_MASS == 1
MAX_FORCE == Q
TICK_RES == 30

STATE_MOVING == "MOVING"
STATE_SETTLING == "SETTLING"
STATE_ARRIVED == "ARRIVED"

EVENT_MOTION_START == "MOTION_START"
EVENT_MOTION_END == "MOTION_END"

\* the blend weights, as fractions <<numerator, denominator>>
MOVE_SEPARATION_FORCE_SCALE == <<16, 10>>
MOVE_ARRIVE_FORCE_SCALE == <<7, 10>>
MOVE_COHESION_FORCE_SCALE == <<1, 10>>
MOVE_ALIGN_FORCE_SCALE == <<1, 10>>
SETTLE_SEPARATION_FORCE_SCALE == <<32, 10>>

ARRIVE_THRESHOLD_DIST == 5 * Q
MOVE_SEPARATION_BUFFER_DIST == 8 * Q
SETTLE_SEPARATION_BUFFER_DIST == 14 * Q
COHESION_NEIGHBOUR_RADIUS == 25 * Q
ALIGN_NEIGHBOUR_RADIUS == 10 * Q
ARRIVE_SLOWING_RADIUS == 10 * Q
ADJACENCY_SEP_DIST == 10 * Q

\* SETTLE_STOP_TOLERANCE (0.05f) as a fraction
SETTLE_STOP_TOLERANCE == <<5, 100>>

\* ------------------------------------------------------------ vector math
Vec(x, y) == [x |-> x, y |-> y, nan |-> FALSE]
NaNVec == [x |-> 0, y |-> 0, nan |-> TRUE]
ZeroVec == Vec(0, 0)

\* a * n / d rounded toward zero (d > 0)
MulDiv(a, n, d) ==
    IF a * n >= 0 THEN (a * n) \div d ELSE -((-(a * n)) \div d)

\* Heron's iteration from a guess r >= sqrt(n): decreases to floor(sqrt(n))
RECURSIVE SqrtIter(_, _)
SqrtIter(n, r) ==
    LET next == (r + n \div r) \div 2
    IN  IF next >= r THEN r ELSE SqrtIter(n, next)

\* floor of the length of the vector (x, y): |x| + |y| is at least the length
Hypot(x, y) ==
    LET ax == IF x < 0 THEN -x ELSE x
        ay == IF y < 0 THEN -y ELSE y
    IN  IF ax + ay = 0 THEN 0 ELSE SqrtIter(x * x + y * y, ax + ay)

\* the length of the vector (x, y) rounded up
HypotUp(x, y) == LET r == Hypot(x, y) IN IF r * r = x * x + y * y THEN r ELSE r + 1

LenSq(v) == v.x * v.x + v.y * v.y

PFM_Vec2_Add(a, b) ==
    IF a.nan \/ b.nan THEN NaNVec ELSE Vec(a.x + b.x, a.y + b.y)

PFM_Vec2_Sub(a, b) ==
    IF a.nan \/ b.nan THEN NaNVec ELSE Vec(a.x - b.x, a.y - b.y)

\* scale by the real number s[1] / s[2]
PFM_Vec2_Scale(v, s) ==
    IF v.nan THEN NaNVec ELSE Vec(MulDiv(v.x, s[1], s[2]), MulDiv(v.y, s[1], s[2]))

\* the length in grid units, rounded down (only used where it is not NaN)
PFM_Vec2_Len(v) == Hypot(v.x, v.y)

\* PFM_Vec2_Len(v) < m, PFM_Vec2_Len(v) <= m, PFM_Vec2_Len(v) > m, exactly
LenLT(v, m) == ~v.nan /\ LenSq(v) < m * m
LenLE(v, m) == ~v.nan /\ LenSq(v) <= m * m
LenGT(v, m) == ~v.nan /\ LenSq(v) > m * m

\* v / |v|, a vector of world length 1; 0/0 for the zero vector
PFM_Vec2_Normal(v) ==
    IF v.nan \/ LenSq(v) = 0 THEN NaNVec
    ELSE LET len == HypotUp(v.x, v.y)
         IN  Vec(MulDiv(v.x, Q, len), MulDiv(v.y, Q, len))

vec2_truncate(v, max_len) ==
    IF LenGT(v, max_len)
    THEN PFM_Vec2_Scale(PFM_Vec2_Normal(v), <<max_len, Q>>)
    ELSE v

\* ---------------------------------------------------------------- entities
\* The entities of the scene (struct entity, owned by the rest of the engine):
\* 1, 2 and 3 can move, 4 is flagged ENTITY_FLAG_STATIC, 5 has max_speed 0.
Entities == {1, 2, 3, 4, 5}

flag_static == [e \in Entities |-> e = 4]

\* world units per second
max_speed == [e \in Entities |-> CASE e = 3 -> 60 [] e = 5 -> 0 [] OTHER -> 30]

selection_radius == [e \in Entities |-> IF e = 2 THEN 2 * Q ELSE Q]

\* the side of the (square) map: positions are clamped to 0 .. MapSize
MapSize == 20 * Q

InitPos ==
    [e \in Entities |->
        CASE e = 1 -> Vec(4 * Q, 4 * Q)
          [] e = 2 -> Vec(7 * Q, 4 * Q)
          [] e = 3 -> Vec(16 * Q, 12 * Q)
          [] e = 4 -> Vec(10 * Q, 10 * Q)
          [] OTHER -> Vec(2 * Q, 12 * Q)]

\* the move orders' destinations: on entity 1, 5 units from entity 1 (less
\* than 5 from entity 2), and far from both
Targets == {Vec(4 * Q, 4 * Q), Vec(7 * Q, 8 * Q), Vec(16 * Q, 4 * Q)}

\* the selections of the move orders (G_Sel_Get), in selection order
Selections ==
    {<<4, 1>>, <<2, 1, 3>>, <<5, 4>>, <<3>>}

\* ------------------------------------------------------------------- state
VARIABLES
    s_flocks,               \* kvec of struct flock: [ents, target_xz]
    s_entity_state_table,   \* uid -> struct movestate: [velocity, state]
    pos,                    \* uid -> the entity's ground-plane position
    events,                 \* E_Entity_Notify calls of the last call, in order
    forces,                 \* the steering forces of the last Tick: <<uid, force>>
    call,                   \* the last call, its arguments, result and pre-state
    nforms,                 \* FormFlock calls so far
    nticks,                 \* Tick calls so far
    notes,                  \* uid -> the notifications emitted for it so far
    s_move_markers,         \* kvec of struct entity*: the uids of the markers
    marker_ents,            \* marker uid -> [registered, frees] (AL / E_Entity)
    live_ents,              \* khash_t(entity) tables allocated and not destroyed
    registered              \* on_mousedown, on_render_3d, on_30hz_tick registered

vars == <<s_flocks, s_entity_state_table, pos, events, forces, call, nforms, nticks,
          notes, s_move_markers, marker_ents, live_ents, registered>>

\* the variables of the move markers
marker_vars == <<s_move_markers, marker_ents>>

\* the notifications of evs for the entity e, in order, as event names
NotesOf(evs, e) ==
    LET For(ev) == ev[2] = e
        mine == SelectSeq(evs, For)
    IN  [k \in 1..Len(mine) |-> mine[k][1]]

\* the history of notifications after the calls evs of E_Entity_Notify
Notified(evs) == [e \in Entities |-> notes[e] \o NotesOf(evs, e)]

\* kh_get(state, s_entity_state_table, uid) != kh_end(s_entity_state_table)
HasState(table, uid) == uid \in DOMAIN table

\* mutant: the table holds the new entry only
PutState_ReplaceTable(table, uid, ms) == [u \in {uid} |-> ms]

\* kh_put + kh_value assignment
PutState(table, uid, ms) ==
    [u \in (DOMAIN table) \cup {uid} |-> IF u = uid THEN ms ELSE table[u]]

\* kv_del: the last element takes the place of the deleted one
kv_del(v, i) ==
    IF i = Len(v) THEN SubSeq(v, 1, Len(v) - 1)
    ELSE [SubSeq(v, 1, Len(v) - 1) EXCEPT ![i] = v[Len(v)]]

kv_push(v, x) == Append(v, x)

\* ---------------------------------------------------------------- steering
\* In the operators below st is the state a Tick has reached: st.pos the
\* entity positions, st.table the motion state table, st.events the
\* notifications emitted and st.forces the steering forces computed so far
\* (and st.flocks the registry).

\* the sum of the vectors f[u], u in S (PFM_Vec2_Add in a kh_foreach)
RECURSIVE SumVec(_, _)
SumVec(f, S) ==
    IF S = {} THEN ZeroVec
    ELSE LET u == CHOOSE u \in S : TRUE
         IN  PFM_Vec2_Add(f[u], SumVec(f, S \ {u}))

\* EPSILON is 1.0f/1024 of a world unit: PFM_Vec2_Len(v) < EPSILON
LenLT_EPSILON(v) == ~v.nan /\ LenSq(v) <= (Q * Q - 1) \div (1024 * 1024)

\* PFM_Vec2_Len(v) > EPSILON
LenGT_EPSILON(v) == ~v.nan /\ LenSq(v) > (Q * Q) \div (1024 * 1024)

\* curr->max_speed / TICK_RES, in grid units
MaxStep(e) == (max_speed[e] * Q) \div TICK_RES

arrive_force(e, flock, st) ==
    LET diff == PFM_Vec2_Sub(flock.target_xz, st.pos[e])
        unit == PFM_Vec2_Normal(diff)
        full == PFM_Vec2_Scale(unit, <<max_speed[e], TICK_RES>>)
        desired_velocity ==
            IF LenLT(diff, ARRIVE_SLOWING_RADIUS)
            THEN PFM_Vec2_Scale(full, <<PFM_Vec2_Len(diff), ARRIVE_SLOWING_RADIUS>>)
            ELSE full
        velocity == st.table[e].velocity
    IN  vec2_truncate(PFM_Vec2_Sub(desired_velocity, velocity), MAX_FORCE)

alignment_force(e, flock, st) ==
    LET near == {c \in flock.ents \ {e} :
                    /\ LenLT(PFM_Vec2_Sub(st.pos[c], st.pos[e]), ALIGN_NEIGHBOUR_RADIUS)
                    /\ ~LenLT_EPSILON(st.table[c].velocity)}
        neighbour_count == Cardinality(near)
        total == SumVec([c \in near |-> st.table[c].velocity], near)
        mean == PFM_Vec2_Scale(total, <<1, neighbour_count>>)
    IN  IF neighbour_count = 0 THEN ZeroVec
        ELSE vec2_truncate(PFM_Vec2_Sub(mean, st.table[e].velocity), MAX_FORCE)

cohesion_force(e, flock, st) ==
    LET near == {c \in flock.ents \ {e} :
                    LenLT(PFM_Vec2_Sub(st.pos[c], st.pos[e]), COHESION_NEIGHBOUR_RADIUS)}
        neighbour_count == Cardinality(near)
        COM == PFM_Vec2_Scale(SumVec([c \in near |-> st.pos[c]], near),
                              <<1, neighbour_count>>)
    IN  IF neighbour_count = 0 THEN ZeroVec
        ELSE vec2_truncate(PFM_Vec2_Sub(COM, st.pos[e]), MAX_FORCE)

separation_force(e, flock, st, buffer_dist) ==
    LET NEIGHBOUR_RADIUS == selection_radius[e] + buffer_dist
        Diff(c) == PFM_Vec2_Sub(st.pos[c], st.pos[e])
        near == {c \in flock.ents \ {e} : LenLT(Diff(c), NEIGHBOUR_RADIUS)}
        neighbour_count == Cardinality(near)
        \* diff scaled by frac = 1.0f - len / NEIGHBOUR_RADIUS
        Push(c) == PFM_Vec2_Scale(Diff(c),
                      <<NEIGHBOUR_RADIUS - PFM_Vec2_Len(Diff(c)), NEIGHBOUR_RADIUS>>)
        total == SumVec([c \in near |-> Push(c)], near)
    IN  IF neighbour_count = 0 THEN ZeroVec
        ELSE vec2_truncate(PFM_Vec2_Scale(total, <<-1, neighbour_count>>), MAX_FORCE)

\* mutant: case STATE_ARRIVED has the separation force of case STATE_SETTLING
blended_force_ArrivedSeparates(e, flock, st) ==
    IF st.table[e].state = STATE_MOVING
    THEN PFM_Vec2_Add(
           PFM_Vec2_Add(
             PFM_Vec2_Add(
               PFM_Vec2_Add(ZeroVec,
                 PFM_Vec2_Scale(separation_force(e, flock, st, MOVE_SEPARATION_BUFFER_DIST),
                                MOVE_SEPARATION_FORCE_SCALE)),
               PFM_Vec2_Scale(arrive_force(e, flock, st), MOVE_ARRIVE_FORCE_SCALE)),
             PFM_Vec2_Scale(cohesion_force(e, flock, st), MOVE_COHESION_FORCE_SCALE)),
           PFM_Vec2_Scale(alignment_force(e, flock, st), MOVE_ALIGN_FORCE_SCALE))
    ELSE PFM_Vec2_Add(ZeroVec,
           PFM_Vec2_Scale(separation_force(e, flock, st, SETTLE_SEPARATION_BUFFER_DIST),
                          SETTLE_SEPARATION_FORCE_SCALE))

\* the weighted sum of the switch in total_steering_force, before the clamp
blended_force(e, flock, st) ==
    LET state == st.table[e].state
        arrive == arrive_force(e, flock, st)
        cohesion == cohesion_force(e, flock, st)
        alignment == alignment_force(e, flock, st)
    IN  CASE state = STATE_MOVING ->
               LET separation == separation_force(e, flock, st, MOVE_SEPARATION_BUFFER_DIST)
               IN  PFM_Vec2_Add(
                     PFM_Vec2_Add(
                       PFM_Vec2_Add(
                         PFM_Vec2_Add(ZeroVec,
                           PFM_Vec2_Scale(separation, MOVE_SEPARATION_FORCE_SCALE)),
                         PFM_Vec2_Scale(arrive, MOVE_ARRIVE_FORCE_SCALE)),
                       PFM_Vec2_Scale(cohesion, MOVE_COHESION_FORCE_SCALE)),
                     PFM_Vec2_Scale(alignment, MOVE_ALIGN_FORCE_SCALE))
          [] state = STATE_SETTLING ->
               LET separation == separation_force(e, flock, st, SETTLE_SEPARATION_BUFFER_DIST)
               IN  PFM_Vec2_Add(ZeroVec,
                     PFM_Vec2_Scale(separation, SETTLE_SEPARATION_FORCE_SCALE))
          [] OTHER -> ZeroVec

total_steering_force(e, flock, st) ==
    vec2_truncate(blended_force(e, flock, st), MAX_FORCE)

\* mutant: the selection radii are left out of the adjacency distance
adjacent_flock_members_NoRadius(e, flock, st) ==
    {c \in flock.ents \ {e} :
        LenLE(PFM_Vec2_Sub(st.pos[e], st.pos[c]), ADJACENCY_SEP_DIST)}

\* the other members of the flock within the adjacency distance of e
adjacent_flock_members(e, flock, st) ==
    {c \in flock.ents \ {e} :
        LenLE(PFM_Vec2_Sub(st.pos[e], st.pos[c]),
              selection_radius[e] + selection_radius[c] + ADJACENCY_SEP_DIST)}

\* M_ClampedMapCoordinate: the point clamped to the bounds of the map
ClampCoord(x) == IF x < 0 THEN 0 ELSE IF x > MapSize THEN MapSize ELSE x

M_ClampedMapCoordinate(p) ==
    IF p.nan THEN NaNVec ELSE Vec(ClampCoord(p.x), ClampCoord(p.y))

\* ------------------------------------------------------------- FormFlock
\* mutant: only the static flag is tested
Ineligible_StaticOnly(e) == flag_static[e]

\* curr_ent->flags & ENTITY_FLAG_STATIC || curr_ent->max_speed == 0.0f
Ineligible(e) == flag_static[e] \/ max_speed[e] = 0

\* mutant: the scan stops before the first flock of the vector (j > 0)
RECURSIVE RemoveFromFlocks_SkipFirst(_, _, _)
RemoveFromFlocks_SkipFirst(flocks, uid, j) ==
    IF j <= 1 THEN flocks
    ELSE LET removed == [flocks EXCEPT ![j].ents = @ \ {uid}]
             after == IF removed[j].ents = {} THEN kv_del(removed, j) ELSE removed
         IN  RemoveFromFlocks_SkipFirst(after, uid, j - 1)

\* the scan of s_flocks for one entity, j = kv_size(s_flocks)-1 down to 0
\* (here j = Len down to 1)
RECURSIVE RemoveFromFlocks(_, _, _)
RemoveFromFlocks(flocks, uid, j) ==
    IF j = 0 THEN flocks
    ELSE LET removed == [flocks EXCEPT ![j].ents = @ \ {uid}]
             after == IF removed[j].ents = {} THEN kv_del(removed, j) ELSE removed
         IN  RemoveFromFlocks(after, uid, j - 1)

\* the first loop of make_flock_from_selection, from selection index i on
RECURSIVE RemoveSelection(_, _, _)
RemoveSelection(flocks, sel, i) ==
    IF i > Len(sel) THEN flocks
    ELSE IF Ineligible(sel[i]) THEN RemoveSelection(flocks, sel, i + 1)
    ELSE RemoveSelection(RemoveFromFlocks(flocks, sel[i], Len(flocks)), sel, i + 1)

\* mutant: an entity moved from another flock starts from velocity zero too
EnrolEntity_ResetVelocity(st, uid) ==
    [ents |-> st.ents \cup {uid},
     table |-> PutState(st.table, uid, [velocity |-> ZeroVec, state |-> STATE_MOVING]),
     events |-> IF ~HasState(st.table, uid) \/ st.table[uid].state = STATE_ARRIVED
                THEN Append(st.events, <<EVENT_MOTION_START, uid>>)
                ELSE st.events]

\* the body of the second loop for an eligible entity: kh_put into the new
\* flock, then the motion state; st = [ents, table, events]
EnrolEntity(st, uid) ==
    IF ~HasState(st.table, uid)
    THEN [ents |-> st.ents \cup {uid},
          table |-> PutState(st.table, uid,
                      [velocity |-> ZeroVec, state |-> STATE_MOVING]),
          events |-> Append(st.events, <<EVENT_MOTION_START, uid>>)]
    ELSE [ents |-> st.ents \cup {uid},
          table |-> [st.table EXCEPT ![uid].state = STATE_MOVING],
          events |-> IF st.table[uid].state = STATE_ARRIVED
                     THEN Append(st.events, <<EVENT_MOTION_START, uid>>)
                     ELSE st.events]

\* mutant: the second loop does not skip the static and the zero-speed entities
RECURSIVE EnrolSelection_NoFilter(_, _, _)
EnrolSelection_NoFilter(st, sel, i) ==
    IF i > Len(sel) THEN st
    ELSE EnrolSelection_NoFilter(EnrolEntity(st, sel[i]), sel, i + 1)

\* the second loop, from selection index i on
RECURSIVE EnrolSelection(_, _, _)
EnrolSelection(st, sel, i) ==
    IF i > Len(sel) THEN st
    ELSE IF Ineligible(sel[i]) THEN EnrolSelection(st, sel, i + 1)
    ELSE EnrolSelection(EnrolEntity(st, sel[i]), sel, i + 1)

\* make_flock_from_selection(sel, target_xz); alloc_ok: kh_init(entity) for
\* the new flock's membership returned a table
make_flock_from_selection(sel, target_xz, alloc_ok) ==
    LET carved == RemoveSelection(s_flocks, sel, 1)
        st == EnrolSelection(
                [ents |-> {}, table |-> s_entity_state_table, events |-> <<>>],
                sel, 1)
    IN  /\ registered
        /\ nforms < MaxForms
        /\ nforms' = nforms + 1
        /\ call' = [op |-> "FormFlock", sel |-> sel,
                    target |-> IF alloc_ok THEN target_xz ELSE ZeroVec,
                    ret |-> alloc_ok, flocks |-> s_flocks,
                    table |-> s_entity_state_table, pos |-> pos]
        /\ IF ~alloc_ok
           THEN /\ s_flocks' = carved
                /\ events' = <<>>
                /\ UNCHANGED s_entity_state_table
           ELSE /\ s_flocks' = kv_push(carved, [ents |-> st.ents, target_xz |-> target_xz])
                /\ s_entity_state_table' = st.table
                /\ events' = st.events
        /\ notes' = Notified(events')
        \* kh_destroy with every kv_del of the first loop, kh_init for the new flock
        /\ live_ents' = live_ents - (Len(s_flocks) - Len(carved))
                            + (IF alloc_ok THEN 1 ELSE 0)
        /\ forces' = <<>>
        /\ UNCHANGED <<pos, nticks, registered>>

FormFlock ==
    \E sel \in Selections, target_xz \in Targets, alloc_ok \in BOOLEAN :
        /\ make_flock_from_selection(sel, target_xz, alloc_ok)
        /\ UNCHANGED marker_vars

\* -------------------------------------------------------------------- Tick
\* SETTLE_STOP_TOLERANCE * curr->max_speed, in grid units
StopSpeed(e) ==
    (SETTLE_STOP_TOLERANCE[1] * max_speed[e] * Q) \div SETTLE_STOP_TOLERANCE[2]

\* the value of an arrived entity's motion state
Arrived == [velocity |-> ZeroVec, state |-> STATE_ARRIVED]

\* case STATE_MOVING of the switch at the end of the member loop's body
UpdateMoving(e, flock, st) ==
    LET diff_to_target == PFM_Vec2_Sub(flock.target_xz, st.pos[e])
        near == LenLT(diff_to_target, ARRIVE_THRESHOLD_DIST)
        t1 == IF near THEN [st.table EXCEPT ![e] = Arrived] ELSE st.table
        ev == IF near THEN Append(st.events, <<EVENT_MOTION_END, e>>) ELSE st.events
        settle == \E c \in adjacent_flock_members(e, flock, st) :
                     t1[c].state \in {STATE_ARRIVED, STATE_SETTLING}
    IN  [st EXCEPT
           !.table = IF settle THEN [t1 EXCEPT ![e].state = STATE_SETTLING] ELSE t1,
           !.events = ev]

\* mutant: the stop speed is taken per tick, as the velocity is
UpdateSettling_PerTick(e, st, new_velocity) ==
    IF LenLT(new_velocity, StopSpeed(e) \div TICK_RES)
    THEN [st EXCEPT !.table = [@ EXCEPT ![e] = Arrived],
                    !.events = Append(@, <<EVENT_MOTION_END, e>>)]
    ELSE st

\* case STATE_SETTLING
UpdateSettling(e, st, new_velocity) ==
    IF LenLT(new_velocity, StopSpeed(e))
    THEN [st EXCEPT !.table = [@ EXCEPT ![e] = Arrived],
                    !.events = Append(@, <<EVENT_MOTION_END, e>>)]
    ELSE st

\* mutant: case STATE_ARRIVED is missing and an arrived entity is handled as
\* a moving one
UpdateState_NoArrivedCase(e, flock, st, new_velocity) ==
    IF st.table[e].state = STATE_SETTLING
    THEN UpdateSettling(e, st, new_velocity)
    ELSE UpdateMoving(e, flock, st)

\* the switch on the entity's state at the end of the member loop's body
UpdateState(e, flock, st, new_velocity) ==
    CASE st.table[e].state = STATE_MOVING -> UpdateMoving(e, flock, st)
      [] st.table[e].state = STATE_SETTLING -> UpdateSettling(e, st, new_velocity)
      [] OTHER -> st

\* mutant: the distance to the target is taken from the position before the
\* move (the outer xz_pos)
MoveMember_StalePos(e, flock, st, new_velocity) ==
    [UpdateState(e, flock, [st EXCEPT !.table = [@ EXCEPT ![e].velocity = new_velocity]],
                 new_velocity)
        EXCEPT !.pos = [@ EXCEPT ![e] =
                          M_ClampedMapCoordinate(PFM_Vec2_Add(st.pos[e], new_velocity))]]

\* "Update position and rotation" and "Update state of entity": the entity
\* moves by new_velocity, which becomes its stored velocity
MoveMember(e, flock, st, new_velocity) ==
    UpdateState(e, flock,
        [st EXCEPT
            !.pos = [@ EXCEPT ![e] =
                        M_ClampedMapCoordinate(PFM_Vec2_Add(st.pos[e], new_velocity))],
            !.table = [@ EXCEPT ![e].velocity = new_velocity]],
        new_velocity)

\* "Compute acceleration" and "Compute new velocity"
AccelerateMember(e, flock, st, steer_force) ==
    MoveMember(e, flock,
        [st EXCEPT !.forces = Append(@, <<e, steer_force>>)],
        vec2_truncate(
            PFM_Vec2_Add(st.table[e].velocity,
                         PFM_Vec2_Scale(steer_force, <<1, ENTITY_MASS>>)),
            MaxStep(e)))

\* the body of the member loop of on_30hz_tick for the entity e of the flock
\* w.flocks[i]; w = [flocks, pos, table, events, forces]
TickMember(e, i, w) ==
    AccelerateMember(e, w.flocks[i], w, total_steering_force(e, w.flocks[i], w))

\* the member loop: kh_foreach visits the members in the order of the hash
\* table's buckets, here the order of the members in ord, from index k on
RECURSIVE TickMembers(_, _, _, _)
TickMembers(i, w, ord, k) ==
    IF k > Len(ord) THEN w
    ELSE IF ord[k] \notin w.flocks[i].ents THEN TickMembers(i, w, ord, k + 1)
    ELSE TickMembers(i, TickMember(ord[k], i, w), ord, k + 1)

\* mutant: a flock is disbanded as soon as one of its members is ARRIVED
Disband_AnyArrived(flock, table) == \E c \in flock.ents : table[c].state = STATE_ARRIVED

\* mutant: a flock is disbanded as soon as none of its members is MOVING
Disband_NotMoving(flock, table) == \A c \in flock.ents : table[c].state # STATE_MOVING

\* "decide if we can disband this flock"
Disband(flock, table) == \A c \in flock.ents : table[c].state = STATE_ARRIVED

\* mutant: after a kv_del the loop goes on at the same index, where the
\* last flock of the vector now is
RECURSIVE TickFlocks_SameIndex(_, _, _)
TickFlocks_SameIndex(w, ord, i) ==
    IF i = 0 THEN w
    ELSE IF i > Len(w.flocks) THEN TickFlocks_SameIndex(w, ord, i - 1)
    ELSE IF Disband(w.flocks[i], w.table)
    THEN TickFlocks_SameIndex([w EXCEPT !.flocks = kv_del(@, i)], ord, i)
    ELSE TickFlocks_SameIndex(TickMembers(i, w, ord, 1), ord, i - 1)

\* the flock loop, i = kv_size(s_flocks)-1 down to 0 (here Len down to 1)
RECURSIVE TickFlocks(_, _, _)
TickFlocks(w, ord, i) ==
    IF i = 0 THEN w
    ELSE IF Disband(w.flocks[i], w.table)
    THEN TickFlocks([w EXCEPT !.flocks = kv_del(@, i)], ord, i - 1)
    ELSE TickFlocks(TickMembers(i, w, ord, 1), ord, i - 1)

\* the orders in which a kh_foreach can visit the members of a flock
Orders ==
    {<<1, 2, 3, 4, 5>>, <<1, 3, 2, 4, 5>>, <<2, 1, 3, 4, 5>>,
     <<2, 3, 1, 4, 5>>, <<3, 1, 2, 4, 5>>, <<3, 2, 1, 4, 5>>}

\* the entities whose place in the order matters: the members of the flocks
\* that have several members
Ordered(flocks) ==
    UNION {flocks[i].ents : i \in {j \in 1..Len(flocks) : Cardinality(flocks[j].ents) > 1}}

\* one order for each way of ordering the entities of Ordered(flocks): the
\* other entities come last, by increasing uid
TickOrders(flocks) ==
    LET M == Ordered(flocks)
    IN  {ord \in Orders :
            /\ \A i, j \in 1..Len(ord) : (i < j /\ ord[j] \in M) => ord[i] \in M
            /\ \A i, j \in 1..Len(ord) :
                  (i < j /\ ord[i] \notin M /\ ord[j] \notin M) => ord[i] < ord[j]}

\* the state after the Tick that visits the members in the order ord
AfterTick(ord) ==
    TickFlocks([flocks |-> s_flocks, pos |-> pos, table |-> s_entity_state_table,
                events |-> <<>>, forces |-> <<>>],
               ord, Len(s_flocks))

\* on_30hz_tick but for the count of the calls
TickBody(ord) ==
    \E w \in {AfterTick(ord)} :
        /\ registered
        /\ call' = [op |-> "Tick", sel |-> <<>>, target |-> ZeroVec, ret |-> TRUE,
                    flocks |-> s_flocks, table |-> s_entity_state_table, pos |-> pos]
        /\ s_flocks' = w.flocks
        /\ s_entity_state_table' = w.table
        /\ pos' = w.pos
        /\ events' = w.events
        /\ forces' = w.forces
        /\ notes' = Notified(w.events)
        \* kh_destroy with every kv_del of a disbanded flock
        /\ live_ents' = live_ents - (Len(s_flocks) - Len(w.flocks))
        /\ UNCHANGED <<nforms, registered, marker_vars>>

on_30hz_tick(ord, max_ticks) ==
    /\ nticks < max_ticks
    /\ nticks' = nticks + 1
    /\ TickBody(ord)

Tick == \E ord \in TickOrders(s_flocks) : on_30hz_tick(ord, MaxTicks)

\* G_Move_Init: empty state table, no flocks
Init ==
    /\ s_flocks = <<>>
    /\ s_entity_state_table = <<>>
    /\ pos = InitPos
    /\ events = <<>>
    /\ forces = <<>>
    /\ call = [op |-> "Init", sel |-> <<>>, target |-> ZeroVec, ret |-> TRUE,
               flocks |-> <<>>, table |-> <<>>, pos |-> InitPos]
    /\ nforms = 0
    /\ nticks = 0
    /\ notes = [e \in Entities |-> <<>>]
    /\ s_move_markers = <<>>
    /\ marker_ents = <<>>
    /\ live_ents = 0
    /\ registered = TRUE

Next == FormFlock \/ Tick

Spec == Init /\ [][Next]_vars

\* ------------------------------------------------------ markers, shutdown
\* the uid AL_EntityFromPFObj gives the next marker entity
NewMarker == Cardinality(DOMAIN marker_ents) + 1

\* move_marker_add: a marker entity is created, its on_marker_anim_finish
\* handler registered, and it is pushed on s_move_markers
move_marker_add ==
    /\ marker_ents' = [m \in (DOMAIN marker_ents) \cup {NewMarker} |->
                          IF m = NewMarker THEN [registered |-> TRUE, frees |-> 0]
                          ELSE marker_ents[m]]
    /\ s_move_markers' = kv_push(s_move_markers, NewMarker)

\* the selections G_Sel_Get returns at a mouse click
SelectionsS == {<<>>, <<4, 1>>, <<5, 4>>, <<3>>}

\* on_mousedown; click: the right button, off the minimap and the UI windows,
\* with the ray hitting the map at target_xz
on_mousedown(click, sel, target_xz, alloc_ok) ==
    IF click /\ Len(sel) > 0
    THEN /\ move_marker_add
         /\ make_flock_from_selection(sel, target_xz, alloc_ok)
    ELSE /\ registered
         /\ call' = [op |-> "MouseDown", sel |-> sel, target |-> ZeroVec, ret |-> FALSE,
                     flocks |-> s_flocks, table |-> s_entity_state_table, pos |-> pos]
         /\ events' = <<>>
         /\ forces' = <<>>
         /\ UNCHANGED <<s_flocks, s_entity_state_table, pos, nforms, nticks, notes,
                        live_ents, registered, marker_vars>>

\* the point of the map the mouse is over at the clicks
TargetS == Vec(7 * Q, 8 * Q)

MouseDown ==
    \E click \in BOOLEAN, sel \in SelectionsS, alloc_ok \in BOOLEAN :
        on_mousedown(click, sel, TargetS, alloc_ok)

\* kv_indexof: the index of the marker m in s_move_markers
IndexOf(m) == CHOOSE i \in 1..Len(s_move_markers) : s_move_markers[i] = m

\* mutant: the marker is unregistered and freed but left on s_move_markers
on_marker_anim_finish_NoDel(m) ==
    /\ marker_ents[m].registered
    /\ marker_ents' = [marker_ents EXCEPT ![m] =
                          [registered |-> FALSE, frees |-> @.frees + 1]]
    /\ call' = [op |-> "AnimFinish", sel |-> <<>>, target |-> ZeroVec, ret |-> TRUE,
                flocks |-> s_flocks, table |-> s_entity_state_table, pos |-> pos]
    /\ events' = <<>>
    /\ forces' = <<>>
    /\ UNCHANGED <<s_flocks, s_entity_state_table, pos, nforms, nticks, notes,
                   live_ents, registered, s_move_markers>>

\* on_marker_anim_finish for the marker m, whose handler is registered
on_marker_anim_finish(m) ==
    /\ marker_ents[m].registered
    /\ s_move_markers' = kv_del(s_move_markers, IndexOf(m))
    /\ marker_ents' = [marker_ents EXCEPT ![m] =
                          [registered |-> FALSE, frees |-> @.frees + 1]]
    /\ call' = [op |-> "AnimFinish", sel |-> <<>>, target |-> ZeroVec, ret |-> TRUE,
                flocks |-> s_flocks, table |-> s_entity_state_table, pos |-> pos]
    /\ events' = <<>>
    /\ forces' = <<>>
    /\ UNCHANGED <<s_flocks, s_entity_state_table, pos, nforms, nticks, notes,
                   live_ents, registered>>

MarkerAnimFinish == \E m \in DOMAIN marker_ents : on_marker_anim_finish(m)

\* the markers of the vector v unregistered and freed, from index i on
RECURSIVE FreeMarkers(_, _, _)
FreeMarkers(ents, v, i) ==
    IF i > Len(v) THEN ents
    ELSE FreeMarkers([ents EXCEPT ![v[i]] = [registered |-> FALSE, frees |-> @.frees + 1]],
                     v, i + 1)

\* G_Move_Shutdown: the handlers are unregistered, the markers unregistered
\* and freed, the three containers destroyed; no kh_destroy(entity, ...)
G_Move_Shutdown ==
    /\ registered
    /\ registered' = FALSE
    /\ marker_ents' = FreeMarkers(marker_ents, s_move_markers, 1)
    /\ s_move_markers' = <<>>
    /\ s_flocks' = <<>>
    /\ s_entity_state_table' = <<>>
    /\ call' = [op |-> "Shutdown", sel |-> <<>>, target |-> ZeroVec, ret |-> TRUE,
                flocks |-> s_flocks, table |-> s_entity_state_table, pos |-> pos]
    /\ events' = <<>>
    /\ forces' = <<>>
    /\ UNCHANGED <<pos, nforms, nticks, notes, live_ents>>

NextS == MouseDown \/ MarkerAnimFinish \/ Tick \/ G_Move_Shutdown

SpecS == Init /\ [][NextS]_vars

\* on_render_3d: every marker of s_move_markers is stepped (A_Update) and
\* drawn (R_GL_Draw), in the order of the vector; call.sel holds their uids
on_render_3d ==
    /\ registered
    /\ call' = [op |-> "Render", sel |-> s_move_markers, target |-> ZeroVec,
                ret |-> TRUE, flocks |-> s_flocks, table |-> s_entity_state_table,
                pos |-> pos]
    /\ events' = <<>>
    /\ forces' = <<>>
    /\ UNCHANGED <<s_flocks, s_entity_state_table, pos, nforms, nticks, notes,
                   live_ents, registered, marker_vars>>

\* the handlers of G_Move_Init and of the markers, each call run to its end
\* before the next, and G_Move_Shutdown
NextM == MouseDown \/ MarkerAnimFinish \/ on_render_3d \/ Tick \/ G_Move_Shutdown

SpecM == Init /\ [][NextM]_vars

\* --------------------------------------------------------------- Scenario A
\* the destination of Scenario A
TargetA == Vec(7 * Q, 8 * Q)

\* the points of the grid 5 units from TargetA in twelve directions
RingA ==
    {Vec(TargetA.x + d[1] * Q, TargetA.y + d[2] * Q) :
        d \in {<<3, 4>>, <<3, -4>>, <<-3, 4>>, <<-3, -4>>,
               <<4, 3>>, <<4, -3>>, <<-4, 3>>, <<-4, -3>>,
               <<5, 0>>, <<-5, 0>>, <<0, 5>>, <<0, -5>>}}

\* as Init, with entity 1 (max_speed 30) at rest on a point of RingA
InitA ==
    /\ s_flocks = <<>>
    /\ s_entity_state_table = <<>>
    /\ \E p \in RingA : pos = [InitPos EXCEPT ![1] = p]
    /\ events = <<>>
    /\ forces = <<>>
    /\ call = [op |-> "Init", sel |-> <<>>, target |-> ZeroVec, ret |-> TRUE,
               flocks |-> <<>>, table |-> <<>>, pos |-> pos]
    /\ nforms = 0
    /\ nticks = 0
    /\ notes = [e \in Entities |-> <<>>]
    /\ s_move_markers = <<>>
    /\ marker_ents = <<>>
    /\ live_ents = 0
    /\ registered = TRUE

\* the move orders of Scenario A: entity 1 alone, or entity 3 alone, to TargetA
FormFlockA ==
    \E sel \in {<<1>>, <<3>>}, alloc_ok \in BOOLEAN :
        /\ make_flock_from_selection(sel, TargetA, alloc_ok)
        /\ UNCHANGED marker_vars

NextA == FormFlockA \/ Tick

SpecA == InitA /\ [][NextA]_vars

\* --------------------------------------------------------------- Scenario B
\* Tick calls in one behaviour of Scenario B
MaxTicksB == 10

\* the destination of Scenario B
TargetB == Vec(10 * Q, 6 * Q)

\* offsets from TargetB of length below ARRIVE_SLOWING_RADIUS, in grid units:
\* on the target, one grid unit and 3 units from it, on the arrive threshold
\* and in the ring between the threshold and the slowing radius
OffsetsB ==
    {<<0, 0>>, <<1, 0>>, <<3 * Q, 0>>, <<0, 3 * Q>>, <<3 * Q, 4 * Q>>,
     <<0, -5 * Q>>, <<6 * Q, 0>>, <<-7 * Q, 0>>, <<7 * Q, 6 * Q>>,
     <<9 * Q, 3 * Q>>, <<-8 * Q, -5 * Q>>}

\* as Init, with entity 1 (max_speed 30) and entity 3 (max_speed 60) at rest
\* within the slowing radius of TargetB, on opposite sides of it
InitB ==
    /\ s_flocks = <<>>
    /\ s_entity_state_table = <<>>
    /\ \E d \in OffsetsB :
          pos = [InitPos EXCEPT ![1] = Vec(TargetB.x + d[1], TargetB.y + d[2]),
                                ![3] = Vec(TargetB.x - d[1], TargetB.y - d[2])]
    /\ events = <<>>
    /\ forces = <<>>
    /\ call = [op |-> "Init", sel |-> <<>>, target |-> ZeroVec, ret |-> TRUE,
               flocks |-> <<>>, table |-> <<>>, pos |-> pos]
    /\ nforms = 0
    /\ nticks = 0
    /\ notes = [e \in Entities |-> <<>>]
    /\ s_move_markers = <<>>
    /\ marker_ents = <<>>
    /\ live_ents = 0
    /\ registered = TRUE

\* the move order of Scenario B, the only one of the behaviour: entity 1
\* alone, or entity 3 alone, to TargetB
FormFlockB ==
    \E sel \in {<<1>>, <<3>>}, alloc_ok \in BOOLEAN :
        /\ nforms = 0
        /\ make_flock_from_selection(sel, TargetB, alloc_ok)
        /\ UNCHANGED marker_vars

\* the Ticks of Scenario B follow the move order
TickB ==
    /\ nforms = 1
    /\ \E ord \in TickOrders(s_flocks) : on_30hz_tick(ord, MaxTicksB)

NextB == FormFlockB \/ TickB

SpecB == InitB /\ [][NextB]_vars

\* --------------------------------------------------------------- Scenario C
\* the destination of Scenario C
TargetC == Vec(10 * Q, 16 * Q)

\* where entity 1 (selection_radius 1) stands in Scenario C
StartsC1 == {Vec(4 * Q, 4 * Q), Vec(Q, Q)}

\* where entity 2 (selection_radius 2) stands: on the first place of entity 1,
\* half a unit, 3, 9, 9.5 and 11 units from it, and in the far corner of the
\* map (more than COHESION_NEIGHBOUR_RADIUS from the second place of entity 1)
StartsC2 ==
    {Vec(4 * Q, 4 * Q), Vec(4 * Q + Q \div 2, 4 * Q), Vec(7 * Q, 4 * Q),
     Vec(13 * Q, 4 * Q), Vec(4 * Q, 13 * Q + Q \div 2), Vec(15 * Q, 4 * Q),
     Vec(20 * Q, 20 * Q)}

\* as Init, with entities 1 and 2 at rest on places of StartsC1 and StartsC2
\* and entity 3 in another corner of the map
InitC ==
    /\ s_flocks = <<>>
    /\ s_entity_state_table = <<>>
    /\ \E p1 \in StartsC1, p2 \in StartsC2 :
          pos = [InitPos EXCEPT ![1] = p1, ![2] = p2, ![3] = Vec(19 * Q, 2 * Q)]
    /\ events = <<>>
    /\ forces = <<>>
    /\ call = [op |-> "Init", sel |-> <<>>, target |-> ZeroVec, ret |-> TRUE,
               flocks |-> <<>>, table |-> <<>>, pos |-> pos]
    /\ nforms = 0
    /\ nticks = 0
    /\ notes = [e \in Entities |-> <<>>]
    /\ s_move_markers = <<>>
    /\ marker_ents = <<>>
    /\ live_ents = 0
    /\ registered = TRUE

\* the move orders of Scenario C: entities 1 and 2 together, with entity 3,
\* or entity 3 alone, to TargetC
FormFlockC ==
    \E sel \in {<<1, 2>>, <<2, 1, 3>>, <<3>>}, alloc_ok \in BOOLEAN :
        /\ make_flock_from_selection(sel, TargetC, alloc_ok)
        /\ UNCHANGED marker_vars

NextC == FormFlockC \/ Tick

SpecC == InitC /\ [][NextC]_vars

\* ------------------------------------------------------ a crowded target
\* the destination of the flock that arrives together
TargetD == Vec(7 * Q, 8 * Q)

\* where entity 1 stands: 2 units or 5 units from TargetD
StartsD1 == {Vec(5 * Q, 8 * Q), Vec(4 * Q, 4 * Q)}

\* where entity 2 stands: 2 units or 4 units from TargetD
StartsD2 == {Vec(9 * Q, 8 * Q), Vec(7 * Q, 4 * Q)}

\* as Init, with entities 1 and 2 at rest on places of StartsD1 and StartsD2
InitD ==
    /\ s_flocks = <<>>
    /\ s_entity_state_table = <<>>
    /\ \E p1 \in StartsD1, p2 \in StartsD2 : pos = [InitPos EXCEPT ![1] = p1, ![2] = p2]
    /\ events = <<>>
    /\ forces = <<>>
    /\ call = [op |-> "Init", sel |-> <<>>, target |-> ZeroVec, ret |-> TRUE,
               flocks |-> <<>>, table |-> <<>>, pos |-> pos]
    /\ nforms = 0
    /\ nticks = 0
    /\ notes = [e \in Entities |-> <<>>]
    /\ s_move_markers = <<>>
    /\ marker_ents = <<>>
    /\ live_ents = 0
    /\ registered = TRUE

\* the move orders: entities 1 and 2, with entity 3 or without, to TargetD
FormFlockD ==
    \E sel \in {<<1, 2>>, <<2, 1, 3>>}, alloc_ok \in BOOLEAN :
        /\ make_flock_from_selection(sel, TargetD, alloc_ok)
        /\ UNCHANGED marker_vars

NextD == FormFlockD \/ Tick

SpecD == InitD /\ [][NextD]_vars

\* ------------------------------------------------- Ticks without end
\* the move orders of the behaviours below: one order, for entity 1 alone,
\* entities 1 and 2, or entities 1, 2 and 3, to TargetD or to the place where
\* entity 1 can stand
TargetsL == {TargetD, Vec(4 * Q, 4 * Q)}

FormFlockL ==
    \E sel \in {<<1>>, <<1, 2>>, <<2, 1, 3>>}, target_xz \in TargetsL, alloc_ok \in BOOLEAN :
        /\ nforms = 0
        /\ make_flock_from_selection(sel, target_xz, alloc_ok)
        /\ UNCHANGED marker_vars

\* the 30 Hz Ticks that follow the move order, as many as the engine runs
TickL ==
    /\ nforms = 1
    /\ \E ord \in TickOrders(s_flocks) : TickBody(ord) /\ UNCHANGED nticks

NextL == FormFlockL \/ TickL

\* ENABLED <<TickL>>_vars written out: a Tick can follow and some visit order
\* gives a step that changes the state
TickLEnabled ==
    /\ nforms = 1
    /\ registered
    /\ \E ord \in TickOrders(s_flocks) :
          \/ call # [op |-> "Tick", sel |-> <<>>, target |-> ZeroVec, ret |-> TRUE,
                     flocks |-> s_flocks, table |-> s_entity_state_table, pos |-> pos]
          \/ AfterTick(ord) # [flocks |-> s_flocks, pos |-> pos,
                               table |-> s_entity_state_table,
                               events |-> <<>>, forces |-> forces]
          \/ events # <<>>

\* WF_vars(TickL): the engine raises the 30 Hz event again and again
FairTickL == []<>(~TickLEnabled) \/ []<><<TickL>>_vars

SpecL == InitD /\ [][NextL]_vars /\ FairTickL

\* ------------------------------------------------------------------ claims
\* the eligible entities of a selection
EligibleOf(sel) == {sel[i] : i \in {j \in 1..Len(sel) : ~Ineligible(sel[j])}}

FlockIdx == 1..Len(s_flocks)

FormFlockReturned == call.op = "FormFlock"
FormFlockSucceeded == call.op = "FormFlock" /\ call.ret
FormFlockFailed == call.op = "FormFlock" /\ ~call.ret
TickReturned == call.op = "Tick"

\* how many flocks of the sequence v equal the flock f
CountOf(v, f) == Cardinality({i \in 1..Len(v) : v[i] = f})

\* the flocks of the registry before the last call, less the entities in E
CarvedOut(E) == [i \in 1..Len(call.flocks) |-> [call.flocks[i] EXCEPT !.ents = @ \ E]]

\* the flocks that contain the entity e, as indexes of the sequence v
FlocksOf(v, e) == {i \in 1..Len(v) : e \in v[i].ents}

\* C1: after any sequence of FormFlock and Tick calls every entity is a member
\* of at most one flock of the registry.
C1_AtMostOneFlock ==
    \A e \in Entities : Cardinality(FlocksOf(s_flocks, e)) <= 1

\* C1 witness: a successful FormFlock has moved an entity out of a flock that
\* is still in the registry (with its other members) into the new flock.
C1_Witness ==
    /\ FormFlockSucceeded
    /\ \E e \in EligibleOf(call.sel) :
          /\ e \in s_flocks[Len(s_flocks)].ents
          /\ \E i \in 1..Len(call.flocks), j \in 1..(Len(s_flocks) - 1) :
                /\ e \in call.flocks[i].ents
                /\ s_flocks[j].ents = call.flocks[i].ents \ EligibleOf(call.sel)
                /\ s_flocks[j].ents # {}

\* C2 (as claimed): a FormFlock that returns false leaves the flock registry
\* and the motion state table exactly as they were before the call.
C2_FailedFormFlockChangesNothing ==
    FormFlockFailed =>
        /\ s_flocks = call.flocks
        /\ s_entity_state_table = call.table

\* C3 (as claimed): the registry never holds a flock with zero members once a
\* FormFlock or Tick call has returned.
C3_NoEmptyFlock ==
    \A i \in FlockIdx : s_flocks[i].ents # {}

\* C4: a successful FormFlock(sel, target) leaves the new flock, with the
\* eligible entities of sel and the target, at the end of the registry; the
\* other flocks are the flocks from before the call, each with its target and
\* its members less the eligible selected entities (those left with members
\* all survive, and only flocks left without members are gone); the
\* membership, phase and velocity of the entities outside sel are unchanged.
C4_FormFlockEffect ==
    FormFlockSucceeded =>
        LET E == EligibleOf(call.sel)
            rest == SubSeq(s_flocks, 1, Len(s_flocks) - 1)
            carved == CarvedOut(E)
            Sel == {call.sel[i] : i \in 1..Len(call.sel)}
        IN  /\ Len(s_flocks) >= 1
            /\ s_flocks[Len(s_flocks)] = [ents |-> E, target_xz |-> call.target]
            /\ \A i \in 1..Len(rest) : CountOf(rest, rest[i]) <= CountOf(carved, rest[i])
            /\ \A i \in 1..Len(carved) :
                  carved[i].ents # {} => CountOf(rest, carved[i]) = CountOf(carved, carved[i])
            /\ \A e \in Entities \ Sel :
                  /\ {s_flocks[i] : i \in FlocksOf(s_flocks, e)}
                        = {carved[i] : i \in FlocksOf(call.flocks, e)}
                  /\ (e \in DOMAIN s_entity_state_table) = (e \in DOMAIN call.table)
                  /\ e \in DOMAIN call.table => s_entity_state_table[e] = call.table[e]

\* C4 witness: a successful FormFlock took some but not all members out of a
\* flock, and an entity outside the selection has a motion state.
C4_Witness ==
    /\ FormFlockSucceeded
    /\ \E i \in 1..Len(call.flocks) :
          /\ call.flocks[i].ents \cap EligibleOf(call.sel) # {}
          /\ call.flocks[i].ents \ EligibleOf(call.sel) # {}
    /\ \E e \in DOMAIN call.table : \A i \in 1..Len(call.sel) : call.sel[i] # e

\* the entity e is enrolled in a new flock by the last call
Enrolled(e) == FormFlockSucceeded /\ e \in EligibleOf(call.sel)

Rank(state) ==
    CASE state = STATE_MOVING -> 0 [] state = STATE_SETTLING -> 1 [] OTHER -> 2

\* C5: in a step that does not enrol the entity in a new flock (a Tick, or a
\* FormFlock for other entities) its phase never goes back: not from ARRIVED to
\* SETTLING or MOVING, not from SETTLING to MOVING.
C5_PhaseMonotonic ==
    [][\A e \in DOMAIN s_entity_state_table :
          \/ Enrolled(e)'
          \/ /\ e \in DOMAIN s_entity_state_table'
             /\ Rank(s_entity_state_table'[e].state) >= Rank(s_entity_state_table[e].state)
      ]_vars

\* the entity e was a member of a flock that the last Tick integrated
Integrated(e) == TickReturned /\ \E k \in 1..Len(forces) : forces[k][1] = e

\* C5 witness: in one Tick an entity went from SETTLING to ARRIVED and another,
\* ARRIVED before the Tick, was integrated with its flock and is still ARRIVED.
C5_Witness ==
    /\ TickReturned
    /\ \E a, b \in DOMAIN call.table :
          /\ call.table[a].state = STATE_SETTLING
          /\ s_entity_state_table[a].state = STATE_ARRIVED
          /\ call.table[b].state = STATE_ARRIVED
          /\ Integrated(b)
          /\ s_entity_state_table[b].state = STATE_ARRIVED

\* the motion-started notifications of the last call for the entity e
Started(e) == {k \in 1..Len(events) : events[k] = <<EVENT_MOTION_START, e>>}

\* the first half of C6, for the last call
C6_StartedExactlyWhenNewOrArrived ==
    FormFlockSucceeded =>
        /\ \A e \in EligibleOf(call.sel) :
              /\ Cardinality(Started(e)) =
                    IF e \notin DOMAIN call.table THEN 1
                    ELSE IF call.table[e].state = STATE_ARRIVED THEN 1 ELSE 0
              /\ s_entity_state_table[e].state = STATE_MOVING
        /\ \A k \in 1..Len(events) :
              /\ events[k][1] = EVENT_MOTION_START
              /\ events[k][2] \in EligibleOf(call.sel)

\* C6 (as claimed): FormFlock emits motion-started for an eligible selected
\* entity exactly when it had no motion state or was ARRIVED, and leaves it
\* MOVING; and a second FormFlock with the same selection and target, right
\* after the first, emits nothing and leaves the registry and the motion
\* states as the first left them.
C6_Notifications ==
    [][/\ C6_StartedExactlyWhenNewOrArrived'
       /\ (/\ FormFlockSucceeded
           /\ FormFlockSucceeded'
           /\ call'.sel = call.sel
           /\ call'.target = call.target)
          => /\ events' = <<>>
             /\ s_flocks' = s_flocks
             /\ s_entity_state_table' = s_entity_state_table
      ]_vars

\* C7: FormFlock changes the velocity of no entity that has a motion state,
\* and the entities it gives a motion state to start with velocity zero.
C7_VelocityKept ==
    FormFlockReturned =>
        \A e \in DOMAIN s_entity_state_table :
            s_entity_state_table[e].velocity =
                IF e \in DOMAIN call.table THEN call.table[e].velocity ELSE ZeroVec

\* C7 witness: a successful FormFlock moved an entity with a nonzero velocity
\* from its flock to the new flock, together with an entity that had no
\* motion state.
C7_Witness ==
    /\ FormFlockSucceeded
    /\ \E a, b \in EligibleOf(call.sel) :
          /\ a \in DOMAIN call.table
          /\ ~call.table[a].velocity.nan
          /\ call.table[a].velocity # ZeroVec
          /\ FlocksOf(call.flocks, a) # {}
          /\ b \notin DOMAIN call.table
          /\ s_entity_state_table[b].velocity = ZeroVec

\* C8 (as claimed): the stored velocity of every entity that has a motion
\* state has magnitude at most max_speed / 30.
C8_VelocityBound ==
    \A e \in DOMAIN s_entity_state_table :
        LenLE(s_entity_state_table[e].velocity, MaxStep(e))

\* C9 (as claimed): every total steering force computed in a Tick has magnitude
\* at most MAX_FORCE.
C9_ForceBound ==
    \A k \in 1..Len(forces) : LenLE(forces[k][2], MAX_FORCE)

\* the last call was a Tick that found the entity e at rest, MOVING and alone
\* in a flock whose target was exactly 5 units away, with max_speed 30
ScenarioA(e) ==
    /\ TickReturned
    /\ max_speed[e] = 30
    /\ e \in DOMAIN call.table
    /\ call.table[e] = [velocity |-> ZeroVec, state |-> STATE_MOVING]
    /\ \E i \in 1..Len(call.flocks) :
          /\ call.flocks[i].ents = {e}
          /\ LenSq(PFM_Vec2_Sub(call.flocks[i].target_xz, call.pos[e])) = (5 * Q) * (5 * Q)

\* the target of the flock the entity e was in before the last call
TargetBefore(e) ==
    call.flocks[CHOOSE i \in 1..Len(call.flocks) : e \in call.flocks[i].ents].target_xz

\* after the Tick of Scenario A the distance of e to its target has shrunk by
\* more than 0 and at most 1 unit
ShrunkByUpToOne(e) ==
    LET d == PFM_Vec2_Sub(TargetBefore(e), pos[e])
    IN  /\ ~d.nan
        /\ LenSq(d) < (5 * Q) * (5 * Q)
        /\ LenSq(d) >= (4 * Q) * (4 * Q)

\* C10 (as claimed): after the Tick of Scenario A the entity is still MOVING
\* and its distance to the target has shrunk by more than 0 and at most 1.
C10_ScenarioA_StillMoving ==
    \A e \in Entities :
        ScenarioA(e) =>
            /\ s_entity_state_table[e].state = STATE_MOVING
            /\ ShrunkByUpToOne(e)

\* C10 (amended): after the Tick of Scenario A the entity is ARRIVED with
\* velocity zero (its new distance is below the arrive threshold of 5), and
\* its distance to the target has shrunk by more than 0 and at most 1.
C10_ScenarioA_Arrived ==
    \A e \in Entities :
        ScenarioA(e) =>
            /\ s_entity_state_table[e] = Arrived
            /\ Cardinality({k \in 1..Len(events) : events[k] = <<EVENT_MOTION_END, e>>}) = 1
            /\ ShrunkByUpToOne(e)

\* C10 witness: the Tick of Scenario A has run for entity 1, approaching the
\* target along a diagonal
C10_Witness ==
    /\ ScenarioA(1)
    /\ call.pos[1] = Vec(TargetA.x + 4 * Q, TargetA.y - 3 * Q)
    /\ pos[1] # call.pos[1]

\* the entity e is the agent of Scenario B: the move order enrolled it, alone,
\* in a flock to TargetB
ScenarioB(e) == nforms = 1 /\ notes[e] # <<>>

\* the Ticks of Scenario B have all run
ScenarioB_Done == nticks = MaxTicksB

\* C11 (as claimed): the agent of Scenario B gets one motion-started and at
\* most one motion-ended notification, and when the Ticks of the scenario have
\* run it is ARRIVED with velocity zero and has got its motion-ended.
C11_ScenarioB_Arrives ==
    \A e \in Entities :
        ScenarioB(e) =>
            /\ notes[e] \in {<<EVENT_MOTION_START>>, <<EVENT_MOTION_START, EVENT_MOTION_END>>}
            /\ ScenarioB_Done =>
                  /\ s_entity_state_table[e] = Arrived
                  /\ notes[e] = <<EVENT_MOTION_START, EVENT_MOTION_END>>

\* where the agent e (entity 1 or 3) of Scenario B started: opposite the other
\* of the two entities, which is in no flock and has not moved
StartB(e) ==
    LET o == IF e = 1 THEN 3 ELSE 1
    IN  Vec(2 * TargetB.x - pos[o].x, 2 * TargetB.y - pos[o].y)

\* C11 for the agents that do not start on the target itself
C11_ScenarioB_OffTarget ==
    \A e \in {1, 3} :
        (ScenarioB(e) /\ StartB(e) # TargetB) =>
            /\ notes[e] \in {<<EVENT_MOTION_START>>, <<EVENT_MOTION_START, EVENT_MOTION_END>>}
            /\ ScenarioB_Done =>
                  /\ s_entity_state_table[e] = Arrived
                  /\ notes[e] = <<EVENT_MOTION_START, EVENT_MOTION_END>>

\* the state the steering forces are computed from
Now == [pos |-> pos, table |-> s_entity_state_table]

\* the separation buffer of the entity e in its phase
BufferOf(e) ==
    IF s_entity_state_table[e].state = STATE_SETTLING
    THEN SETTLE_SEPARATION_BUFFER_DIST ELSE MOVE_SEPARATION_BUFFER_DIST

\* the separation force total_steering_force takes for the member e of flock
SeparationOf(e, flock) == separation_force(e, flock, Now, BufferOf(e))

\* the members a and b of a flock are within the separation buffer of each other
Overlap(a, b) ==
    /\ s_entity_state_table[a].state # STATE_ARRIVED
    /\ s_entity_state_table[b].state # STATE_ARRIVED
    /\ LenLT(PFM_Vec2_Sub(pos[b], pos[a]), selection_radius[a] + BufferOf(a))
    /\ LenLT(PFM_Vec2_Sub(pos[b], pos[a]), selection_radius[b] + BufferOf(b))

Dot(a, b) == a.x * b.x + a.y * b.y
Cross(a, b) == a.x * b.y - a.y * b.x
Abs(n) == IF n < 0 THEN -n ELSE n

\* the force f has the direction of d, up to the rounding of f to the grid
PointsAlong(f, d) ==
    /\ ~f.nan /\ ~d.nan
    /\ Dot(f, d) > 0
    /\ Abs(Cross(f, d)) <= 4 * (Abs(d.x) + Abs(d.y))

\* the members a and b of the two-member flock push each other apart
PushedApart(a, b, flock) ==
    LET fa == SeparationOf(a, flock)
        fb == SeparationOf(b, flock)
    IN  /\ fa # ZeroVec /\ fb # ZeroVec
        /\ PointsAlong(fa, PFM_Vec2_Sub(pos[a], pos[b]))
        /\ PointsAlong(fb, PFM_Vec2_Sub(pos[b], pos[a]))
        /\ Dot(fa, fb) < 0

\* no other member of the flock is within a steering radius of the member e
NoMateInRange(e, flock) ==
    \A c \in flock.ents \ {e} :
        LET d == PFM_Vec2_Sub(pos[c], pos[e])
        IN  /\ ~LenLT(d, COHESION_NEIGHBOUR_RADIUS)
            /\ ~LenLT(d, ALIGN_NEIGHBOUR_RADIUS)
            /\ ~LenLT(d, selection_radius[e] + BufferOf(e))

\* the alignment, cohesion and separation forces on the member e are zero
NoFlockingForce(e, flock) ==
    /\ alignment_force(e, flock, Now) = ZeroVec
    /\ cohesion_force(e, flock, Now) = ZeroVec
    /\ SeparationOf(e, flock) = ZeroVec

\* the second half of C12: a member with no flock-mate in range gets zero
\* alignment, cohesion and separation forces
C12_LoneAgentNoForce ==
    \A i \in FlockIdx : \A e \in s_flocks[i].ents :
        NoMateInRange(e, s_flocks[i]) => NoFlockingForce(e, s_flocks[i])

\* C12 (as claimed, for flocks of two): two members that overlap within the
\* separation buffer get nonzero separation forces that point in opposite
\* directions, each away from the other member; and a member with no
\* flock-mate in range gets zero alignment, cohesion and separation forces.
C12_ScenarioC ==
    /\ C12_LoneAgentNoForce
    /\ \A i \in FlockIdx : \A a, b \in s_flocks[i].ents :
          (s_flocks[i].ents = {a, b} /\ a # b /\ Overlap(a, b))
              => PushedApart(a, b, s_flocks[i])

\* C12 for two members that do not stand on the same point
C12_ScenarioC_Apart ==
    /\ C12_LoneAgentNoForce
    /\ \A i \in FlockIdx : \A a, b \in s_flocks[i].ents :
          (s_flocks[i].ents = {a, b} /\ a # b /\ Overlap(a, b) /\ pos[a] # pos[b])
              => PushedApart(a, b, s_flocks[i])

\* every member of the flock f was ARRIVED before the last call
ArrivedBefore(f) == \A c \in f.ents : call.table[c].state = STATE_ARRIVED

\* the last call left the entity e as it was and emitted nothing for it
Untouched(e) ==
    /\ pos[e] = call.pos[e]
    /\ s_entity_state_table[e] = call.table[e]
    /\ \A k \in 1..Len(events) : events[k][2] # e
    /\ \A k \in 1..Len(forces) : forces[k][1] # e

\* C13: a Tick removes from the registry every flock whose members were all
\* ARRIVED when the Tick began and integrates none of its members (position,
\* velocity and phase unchanged, no notification, no steering force); every
\* other flock is still in the registry when the Tick returns, also when all
\* its members have reached ARRIVED in that Tick, and so leaves with the next.
C13_Disbanding ==
    TickReturned =>
        \A i \in 1..Len(call.flocks) :
            LET f == call.flocks[i]
            IN  IF ArrivedBefore(f)
                THEN /\ CountOf(s_flocks, f) = 0
                     /\ \A e \in f.ents : Untouched(e)
                ELSE CountOf(s_flocks, f) = CountOf(call.flocks, f)

\* C13 witness: a Tick has disbanded a flock with members, all ARRIVED in the
\* Tick before, while it integrated a member of another flock.
C13_Witness ==
    /\ TickReturned
    /\ nticks >= 2
    /\ \E i \in 1..Len(call.flocks) :
          /\ call.flocks[i].ents # {}
          /\ ArrivedBefore(call.flocks[i])
          /\ CountOf(s_flocks, call.flocks[i]) = 0
    /\ forces # <<>>

\* the flocks of the registry before the last call, as the first loop of a
\* FormFlock with the selection of the last call leaves those that stay
CarvedBefore == CarvedOut(EligibleOf(call.sel))

\* the flocks from before the last FormFlock that are in the registry now: all
\* but the new flock, which a successful call has pushed last
KeptFlocks == IF call.ret THEN SubSeq(s_flocks, 1, Len(s_flocks) - 1) ELSE s_flocks

\* the flock call.flocks[i] has left the registry in the last FormFlock
GoneInFormFlock(i) ==
    CountOf(KeptFlocks, CarvedBefore[i]) < CountOf(CarvedBefore, CarvedBefore[i])

\* the flock call.flocks[i] has left the registry in the last Tick
GoneInTick(i) ==
    CountOf(s_flocks, call.flocks[i]) < CountOf(call.flocks, call.flocks[i])

\* the second sentence of C14: a Tick never removes a flock that has a MOVING
\* or SETTLING member, and FormFlock never removes a flock that still has a
\* member outside the eligible selection.
C14_LiveFlocksStay ==
    /\ TickReturned =>
          \A i \in 1..Len(call.flocks) : GoneInTick(i) => ArrivedBefore(call.flocks[i])
    /\ FormFlockReturned =>
          \A i \in 1..Len(call.flocks) :
              GoneInFormFlock(i) => call.flocks[i].ents \subseteq EligibleOf(call.sel)

\* C14 (as claimed): a flock leaves the registry only when a Tick finds all its
\* members ARRIVED or when a FormFlock reassigns its last remaining member to
\* a new flock: the flock had members, all in the eligible selection, and they
\* are the members of the new flock the call has pushed.
C14_FlockLeavesOnlyTwoWays ==
    /\ C14_LiveFlocksStay
    /\ FormFlockReturned =>
          \A i \in 1..Len(call.flocks) :
              GoneInFormFlock(i) =>
                  /\ call.flocks[i].ents # {}
                  /\ call.ret
                  /\ call.flocks[i].ents \subseteq s_flocks[Len(s_flocks)].ents

\* a FormFlock has taken the last members of a flock, and the flock is gone
C14_Reached ==
    /\ FormFlockSucceeded
    /\ \E i \in 1..Len(call.flocks) :
          /\ GoneInFormFlock(i)
          /\ call.flocks[i].ents # {}
          /\ Len(call.flocks) >= 2

\* C15: an entity that is flagged static or has max_speed 0 is in no flock,
\* has no motion state and has never got a notification, whatever FormFlock
\* and Tick calls were made; the last call has not changed its position.
C15_IneligibleNeverEnrolled ==
    \A e \in Entities :
        (flag_static[e] \/ max_speed[e] = 0) =>
            /\ FlocksOf(s_flocks, e) = {}
            /\ e \notin DOMAIN s_entity_state_table
            /\ notes[e] = <<>>
            /\ pos[e] = call.pos[e]

\* C15 witness: a successful FormFlock had a static entity and an entity with
\* max_speed 0 in its selection (and no other), after one whose selection held
\* a static entity and an entity that can move.
C15_Witness ==
    /\ FormFlockSucceeded
    /\ \E i, j \in 1..Len(call.sel) :
          flag_static[call.sel[i]] /\ max_speed[call.sel[j]] = 0
    /\ \E i \in 1..Len(call.flocks) : call.flocks[i].ents # {}
    /\ \E e \in DOMAIN s_entity_state_table : TRUE

ShutdownReturned == call.op = "Shutdown"

\* the markers: one on s_move_markers is registered and not freed, any other
\* is unregistered and has been freed once
C16_MarkersFreedOnce ==
    \A m \in DOMAIN marker_ents :
        IF \E i \in 1..Len(s_move_markers) : s_move_markers[i] = m
        THEN marker_ents[m] = [registered |-> TRUE, frees |-> 0]
        ELSE marker_ents[m] = [registered |-> FALSE, frees |-> 1]

\* the markers' half of C16: after G_Move_Shutdown every marker is
\* unregistered and has been freed exactly once
C16_MarkersReleased ==
    /\ C16_MarkersFreedOnce
    /\ ShutdownReturned => s_move_markers = <<>>

\* C16 (as claimed): after G_Move_Shutdown the membership table of every flock
\* that was in the registry has been released (no khash_t(entity) is left
\* allocated), and every marker is unregistered and freed exactly once.
C16_ShutdownReleasesAll ==
    /\ C16_MarkersReleased
    /\ ShutdownReturned => live_ents = 0

\* before G_Move_Shutdown every flock of the registry owns one membership table
C16_OneTablePerFlock == ~ShutdownReturned => live_ents = Len(s_flocks)

\* G_Move_Shutdown has run with a marker alive, another one finished, and a
\* flock in the registry
C16_Reached ==
    /\ ShutdownReturned
    /\ Len(call.flocks) > 0
    /\ \E m, n \in DOMAIN marker_ents : m # n

\* the motion-ended notifications of the last call for the entity e
Ended(e) == {k \in 1..Len(events) : events[k] = <<EVENT_MOTION_END, e>>}

\* the last Tick has moved the entity e, MOVING before it, to a position less
\* than ARRIVE_THRESHOLD_DIST from the target of its flock
MovedToTarget(e) ==
    /\ Integrated(e)
    /\ call.table[e].state = STATE_MOVING
    /\ LenLT(PFM_Vec2_Sub(TargetBefore(e), pos[e]), ARRIVE_THRESHOLD_DIST)

\* C17 (as claimed): an agent that a Tick has moved, MOVING, to less than 5
\* units from its flock's target is ARRIVED with velocity zero when the Tick
\* returns, with exactly one motion-ended notification in that Tick, whatever
\* the phases of its adjacent flock-mates.
C17_ArrivesAtTarget ==
    \A e \in DOMAIN call.table :
        MovedToTarget(e) =>
            /\ s_entity_state_table[e] = Arrived
            /\ Cardinality(Ended(e)) = 1

\* what holds of C17 for every agent: velocity zero, one motion-ended, and
\* the phase ARRIVED or SETTLING
C17_StopsAtTarget ==
    \A e \in DOMAIN call.table :
        MovedToTarget(e) =>
            /\ s_entity_state_table[e].velocity = ZeroVec
            /\ s_entity_state_table[e].state \in {STATE_ARRIVED, STATE_SETTLING}
            /\ Cardinality(Ended(e)) = 1

\* C17 for the agents that are alone in their flock
C17_ArrivesAtTargetAlone ==
    \A e \in DOMAIN call.table :
        (MovedToTarget(e) /\ \E i \in 1..Len(call.flocks) : call.flocks[i].ents = {e})
            => /\ s_entity_state_table[e] = Arrived
               /\ Cardinality(Ended(e)) = 1

\* the notifications n of one entity alternate, motion-started first
Alternate(n) ==
    \A k \in 1..Len(n) :
        n[k] = IF k % 2 = 1 THEN EVENT_MOTION_START ELSE EVENT_MOTION_END

\* C18 (as claimed): the motion-started and motion-ended notifications of
\* every entity alternate over any sequence of FormFlock and Tick calls,
\* starting with motion-started.
C18_NotificationsAlternate ==
    \A e \in Entities : Alternate(notes[e])

\* what holds of C18: the first notification of an entity is motion-started,
\* and no two motion-started follow each other
C18_NoDoubleStart ==
    \A e \in Entities :
        /\ notes[e] # <<>> => notes[e][1] = EVENT_MOTION_START
        /\ \A k \in 1..(Len(notes[e]) - 1) :
              ~(notes[e][k] = EVENT_MOTION_START /\ notes[e][k + 1] = EVENT_MOTION_START)

\* the flock the entity e was in before the last call
FlockBefore(e) ==
    call.flocks[CHOOSE i \in 1..Len(call.flocks) : e \in call.flocks[i].ents]

\* the last Tick visited the member c before the member e
VisitedBefore(c, e) ==
    \E k, l \in 1..Len(forces) : k < l /\ forces[k][1] = c /\ forces[l][1] = e

\* the position and the phase of the member c at the moment the last Tick
\* updated the state of the member e
MomentPos(c, e) == IF VisitedBefore(c, e) THEN pos[c] ELSE call.pos[c]
MomentState(c, e) ==
    IF VisitedBefore(c, e) THEN s_entity_state_table[c].state ELSE call.table[c].state

\* the flock-mates of e that were stopped and within the adjacency distance
\* r(e) + r(c) + 10 of e when the last Tick had moved e
StoppedNear(e) ==
    {c \in FlockBefore(e).ents \ {e} :
        /\ MomentState(c, e) \in {STATE_SETTLING, STATE_ARRIVED}
        /\ LenLE(PFM_Vec2_Sub(MomentPos(c, e), pos[e]),
                 selection_radius[e] + selection_radius[c] + ADJACENCY_SEP_DIST)}

\* the last Tick has moved the entity e, MOVING before it, to a position at
\* least ARRIVE_THRESHOLD_DIST from the target of its flock
MovedShortOfTarget(e) ==
    /\ Integrated(e)
    /\ call.table[e].state = STATE_MOVING
    /\ ~pos[e].nan
    /\ ~LenLT(PFM_Vec2_Sub(TargetBefore(e), pos[e]), ARRIVE_THRESHOLD_DIST)

\* C19: a MOVING agent that a Tick has moved to a position 5 units or more
\* from the target is SETTLING when the Tick returns exactly when, at the
\* moment it was processed, another member of its flock within distance
\* radius + radius + 10 (inclusive) was SETTLING or ARRIVED, and is MOVING
\* otherwise; the adjacent members of an agent never include the agent, and
\* adjacency is symmetric between two members of a flock.
C19_SettlesNextToStopped ==
    /\ \A e \in DOMAIN call.table :
          MovedShortOfTarget(e) =>
              s_entity_state_table[e].state =
                  IF StoppedNear(e) # {} THEN STATE_SETTLING ELSE STATE_MOVING
    /\ \A i \in FlockIdx : \A a, b \in s_flocks[i].ents :
          /\ a \notin adjacent_flock_members(a, s_flocks[i], Now)
          /\ (b \in adjacent_flock_members(a, s_flocks[i], Now))
                = (a # b /\ a \in adjacent_flock_members(b, s_flocks[i], Now))

\* C19 witness: in one Tick a MOVING agent short of the target has become
\* SETTLING next to a stopped flock-mate more than 10 units away, and another
\* agent of the flock, with a flock-mate in adjacency distance that was still
\* MOVING, has stayed MOVING.
C19_Witness ==
    /\ TickReturned
    /\ \E a, b \in DOMAIN call.table :
          /\ MovedShortOfTarget(a) /\ MovedShortOfTarget(b)
          /\ s_entity_state_table[a].state = STATE_SETTLING
          /\ \E c \in StoppedNear(a) :
                ~LenLE(PFM_Vec2_Sub(MomentPos(c, a), pos[a]), ADJACENCY_SEP_DIST)
          /\ s_entity_state_table[b].state = STATE_MOVING
          /\ FlockBefore(b) = FlockBefore(a)
          /\ adjacent_flock_members(b, FlockBefore(b), Now) # {}

\* the last Tick has processed the entity e, which was SETTLING
ProcessedSettling(e) == Integrated(e) /\ call.table[e].state = STATE_SETTLING

\* C20: an agent that is SETTLING when a Tick processes it is ARRIVED with
\* velocity zero when the Tick returns, and the Tick has emitted one
\* motion-ended notification for it: SETTLING never lasts more than one Tick.
C20_SettlingEndsInOneTick ==
    \A e \in DOMAIN call.table :
        ProcessedSettling(e) =>
            /\ s_entity_state_table[e] = Arrived
            /\ Cardinality(Ended(e)) = 1

\* C20 witness: a Tick has processed a SETTLING agent that had a velocity and
\* a separation force on it, and the agent has moved in that Tick.
C20_Witness ==
    \E e \in DOMAIN call.table :
        /\ ProcessedSettling(e)
        /\ call.table[e].velocity # ZeroVec
        /\ \E k \in 1..Len(forces) : forces[k][1] = e /\ forces[k][2] # ZeroVec
        /\ pos[e] # call.pos[e]

\* how many steering forces the last Tick has computed for the entity e
TimesIntegrated(e) == Cardinality({k \in 1..Len(forces) : forces[k][1] = e})

\* the flocks of the sequence v that have members, as indexes
WithMembers(v) == {i \in 1..Len(v) : v[i].ents # {}}

\* C21: a Tick handles every flock that is in the registry when it begins
\* exactly once: a flock whose members are all ARRIVED is gone and none of its
\* members is integrated, every other flock is still there and each of its
\* members is integrated once, and the registry holds nothing else; the scan
\* of a FormFlock with an eligible entity leaves every flock that keeps a
\* member, once, and none that is left without.
C21_EveryFlockHandledOnce ==
    /\ TickReturned =>
          /\ \A i \in 1..Len(call.flocks) :
                LET f == call.flocks[i]
                IN  IF ArrivedBefore(f)
                    THEN /\ CountOf(s_flocks, f) = 0
                         /\ \A e \in f.ents : TimesIntegrated(e) = 0
                    ELSE /\ CountOf(s_flocks, f) = CountOf(call.flocks, f)
                         /\ \A e \in f.ents : TimesIntegrated(e) = 1
          /\ Len(s_flocks)
                = Cardinality({i \in 1..Len(call.flocks) : ~ArrivedBefore(call.flocks[i])})
    /\ (FormFlockReturned /\ EligibleOf(call.sel) # {}) =>
          /\ \A i \in 1..Len(CarvedBefore) :
                CountOf(KeptFlocks, CarvedBefore[i])
                    = IF CarvedBefore[i].ents = {} THEN 0
                      ELSE CountOf(CarvedBefore, CarvedBefore[i])
          /\ Len(KeptFlocks) = Cardinality(WithMembers(CarvedBefore))

\* C21 witness: a Tick began with three flocks, disbanded two of them and
\* integrated the third, which came after them in the registry.
C21_Witness ==
    /\ TickReturned
    /\ \E i, j, k \in 1..Len(call.flocks) :
          /\ i < j /\ j < k
          /\ ArrivedBefore(call.flocks[i])
          /\ ArrivedBefore(call.flocks[j])
          /\ ~ArrivedBefore(call.flocks[k])
          /\ \A e \in call.flocks[k].ents : TimesIntegrated(e) = 1
    /\ Len(s_flocks) = 1

\* a FormFlock has emptied a flock in its scan while another flock of the
\* registry kept a member
C21_ScanReached ==
    /\ FormFlockReturned
    /\ Len(call.flocks) >= 2
    /\ Len(call.flocks) - Len(KeptFlocks) >= 1
    /\ Len(KeptFlocks) >= 1

\* what a Tick that visits the members in the order ord leaves behind: every
\* entity's phase and velocity, its position, and the set of notifications
OutcomeOf(ord) ==
    LET w == AfterTick(ord)
    IN  [table |-> w.table, pos |-> w.pos,
         events |-> {w.events[k] : k \in 1..Len(w.events)}]

\* C22 (as claimed): the outcome of a Tick is the same whatever the order in
\* which the members of a flock are visited.
C22_OrderIndependent ==
    \A o1, o2 \in TickOrders(s_flocks) : OutcomeOf(o1) = OutcomeOf(o2)

\* C23: an entity whose phase is ARRIVED has the velocity zero, and a Tick
\* leaves an entity that is ARRIVED when it begins as it is: phase ARRIVED,
\* velocity zero, the same position and no notification, also when its flock
\* stays and is integrated because another member has not arrived.
C23_ArrivedStaysPut ==
    /\ \A e \in DOMAIN s_entity_state_table :
          s_entity_state_table[e].state = STATE_ARRIVED
              => s_entity_state_table[e].velocity = ZeroVec
    /\ TickReturned =>
          \A e \in DOMAIN call.table :
              call.table[e].state = STATE_ARRIVED =>
                  /\ s_entity_state_table[e] = Arrived
                  /\ pos[e] = call.pos[e]
                  /\ \A k \in 1..Len(events) : events[k][2] # e
                  /\ \A k \in 1..Len(forces) : forces[k][1] = e => forces[k][2] = ZeroVec

\* C23 witness: a Tick has integrated a flock with an entity that was ARRIVED
\* when the Tick began and a mate within its settle separation range that was
\* not, and that mate has moved.
C23_Witness ==
    /\ TickReturned
    /\ \E i \in 1..Len(call.flocks) :
          \E a, b \in call.flocks[i].ents :
              /\ call.table[a].state = STATE_ARRIVED
              /\ TimesIntegrated(a) = 1
              /\ call.table[b].state # STATE_ARRIVED
              /\ pos[b] # call.pos[b]
              /\ LenLT(PFM_Vec2_Sub(call.pos[a], call.pos[b]), SETTLE_SEPARATION_BUFFER_DIST)

\* C24: every member of every flock of the registry has an entry in the
\* motion state table (the kh_exist assertions of on_30hz_tick and of the
\* steering functions hold), and the last FormFlock or Tick has removed no
\* entry of the table.
C24_MembersHaveState ==
    /\ \A i \in FlockIdx : s_flocks[i].ents \subseteq DOMAIN s_entity_state_table
    /\ DOMAIN call.table \subseteq DOMAIN s_entity_state_table

\* C24 witness: after a Tick that disbanded a flock and integrated another,
\* the members of the disbanded flock are in no flock and have their entries.
C24_Witness ==
    /\ TickReturned
    /\ forces # <<>>
    /\ \E i \in 1..Len(call.flocks) :
          /\ call.flocks[i].ents # {}
          /\ CountOf(s_flocks, call.flocks[i]) = 0
          /\ \A e \in call.flocks[i].ents :
                /\ FlocksOf(s_flocks, e) = {}
                /\ e \in DOMAIN s_entity_state_table

\* C25 (as claimed): after any sequence of FormFlock calls, successful or
\* failed, and Tick calls, every entity whose phase is MOVING or SETTLING is a
\* member of a flock of the registry.
C25_MovingHasFlock ==
    \A e \in DOMAIN s_entity_state_table :
        s_entity_state_table[e].state # STATE_ARRIVED => FlocksOf(s_flocks, e) # {}

\* the part of C25 that holds: a successful FormFlock and a Tick leave every
\* MOVING or SETTLING entity in a flock if the call began with every such
\* entity in a flock.
C25_KeptBySuccessAndTick ==
    (/\ ~FormFlockFailed
     /\ \A e \in DOMAIN call.table :
           call.table[e].state # STATE_ARRIVED => FlocksOf(call.flocks, e) # {})
        => C25_MovingHasFlock

\* every entity with a motion state is ARRIVED and the registry is empty
AllArrived ==
    /\ s_flocks = <<>>
    /\ \A e \in DOMAIN s_entity_state_table :
          s_entity_state_table[e].state = STATE_ARRIVED

\* the move order is given and a Tick changes nothing any more, whatever the
\* visit order: every further Tick leaves the registry, the motion states and
\* the positions as they are and emits no notification
AtRest ==
    /\ nforms = 1
    /\ \A ord \in TickOrders(s_flocks) :
          AfterTick(ord) = [flocks |-> s_flocks, pos |-> pos,
                            table |-> s_entity_state_table,
                            events |-> <<>>, forces |-> AfterTick(ord).forces]

\* C26 (as claimed): once the move orders have ended, with every target inside
\* the map, the Ticks that follow bring every entity to ARRIVED and empty the
\* registry; so the Ticks come to rest only with every entity ARRIVED and the
\* registry empty.
C26_RestOnlyWhenAllArrived == AtRest => AllArrived

\* C26 as a temporal formula, for the behaviours with Ticks without end
C26_LeadsToAllArrived == (nforms = 1) ~> AllArrived

\* a member of a flock stands on the flock's target
OnTarget == \E i \in FlockIdx : \E e \in s_flocks[i].ents : pos[e] = s_flocks[i].target_xz

\* the last call was a FormFlock that put no member on its target
OrderOffTarget == nforms = 1 /\ FormFlockReturned /\ ~OnTarget

\* C26 for the move orders that have no member on the target
C26_OffTargetAllArrive == OrderOffTarget ~> AllArrived

\* the markers of the vector v, as a set
MarkersOn(v) == {v[i] : i \in 1..Len(v)}

\* the markers freed by the step
FreedInStep ==
    {m \in DOMAIN marker_ents' :
        m \in DOMAIN marker_ents /\ marker_ents'[m].frees > marker_ents[m].frees}

\* C27: a move order with a selection that is not empty adds one new marker,
\* registered and not freed, to s_move_markers, and a mouse event with an
\* empty selection adds none and leaves the registry as it is; a marker is
\* freed at most once, only by its animation-finished handler or by
\* G_Move_Shutdown, and with that it is unregistered and off s_move_markers;
\* the markers on_render_3d steps and draws have not been freed.
C27_MarkerLifecycle ==
    [][/\ call'.op = "FormFlock" =>
             /\ Len(call'.sel) > 0
             /\ \E m \in (DOMAIN marker_ents') \ (DOMAIN marker_ents) :
                   /\ DOMAIN marker_ents' = (DOMAIN marker_ents) \cup {m}
                   /\ s_move_markers' = Append(s_move_markers, m)
                   /\ marker_ents'[m] = [registered |-> TRUE, frees |-> 0]
       /\ (call'.op = "MouseDown" /\ call'.sel = <<>>) =>
             /\ UNCHANGED marker_vars
             /\ UNCHANGED <<s_flocks, s_entity_state_table>>
       /\ FreedInStep # {} => call'.op \in {"AnimFinish", "Shutdown"}
       /\ call'.op = "AnimFinish" => Cardinality(FreedInStep) = 1
       /\ call'.op = "Shutdown" => FreedInStep = MarkersOn(s_move_markers)
       /\ \A m \in FreedInStep :
             /\ marker_ents[m] = [registered |-> TRUE, frees |-> 0]
             /\ marker_ents'[m] = [registered |-> FALSE, frees |-> 1]
             /\ m \in MarkersOn(s_move_markers)
             /\ m \notin MarkersOn(s_move_markers')
       /\ call'.op = "Render" =>
             /\ call'.sel = s_move_markers
             /\ \A m \in MarkersOn(call'.sel) : marker_ents[m].frees = 0
      ]_vars

\* C27 witness: on_render_3d has stepped and drawn a marker after the
\* animation of another marker, spawned before it, has finished and that
\* marker has been freed.
C27_Witness ==
    /\ call.op = "Render"
    /\ \E m \in MarkersOn(call.sel) :
          \E n \in DOMAIN marker_ents : n < m /\ marker_ents[n].frees = 1

====
